---- MODULE Spec2Model ----
(***************************************************************************)
(* fdk-mqa-scoring-bff: the assessment store (tables dataset_assessments   *)
(* and dimensions) and the HTTP handlers update_assessment,                *)
(* assessment_graph and scores that write and read it.                     *)
(*                                                                         *)
(* Text is a sequence of one-character strings, so that the aggregate      *)
(* query, which is built by string formatting, can be formatted and read   *)
(* back the way the SQL lexer reads it.                                    *)
(***************************************************************************)
EXTENDS Integers, Sequences, FiniteSets, TLC

VARIABLES
    dataset_assessments, \* table dataset_assessments, primary key id
    dimensions,          \* table dimensions, primary key (dataset_uri, id)
    request,             \* the handler that ran last, with the X-API-KEY header or the
                         \* datasets list it was given; of an update_assessment that
                         \* reached the storage also the assessment id and dataset uri
    response,            \* the outcome of the request handled last
    latest,              \* history: dataset uri -> body of the most recent successful update
    latestById,          \* history: assessment id -> body of the most recent successful update
    storageFailures,     \* history: how many update_assessment ended in a storage error
    workers,             \* SpecConcurrent: the update_assessment each blocking thread is in
    reader,              \* SpecConcurrent: the scores request in progress
    allowed              \* SpecConcurrent, history: dataset uri -> the row sets that are
                         \* one update's complete set, or the set held before the updates

conc == <<workers, reader, allowed>>

vars == <<dataset_assessments, dimensions, request, response,
          latest, latestById, storageFailures, workers, reader, allowed>>

\* Option<T>: None is the empty sequence, Some(v) the sequence <<v>>.
None == <<>>
Some(v) == <<v>>

----------------------------------------------------------------------------
(* Inputs *)

\* The configured API key (the tests run with API_KEY=foo).
API_KEY == "foo"

\* X-API-KEY header of a request: missing, not visible ASCII, or a value.
ApiKeyHeaders == {"<missing>", "<opaque>", "foo", "bar"}

\* Path ids: two uuids, one of them also spelled in upper case, and a string
\* that is no uuid.
PathIds == {"02f0", "02F0", "8409", "nouuid"}

\* the threads of web::block that run update_assessment under SpecConcurrent
Workers == {"w1", "w2"}

\* the uuids, as Uuid::to_string prints them
Uuids == {"02f0", "8409", "1337"}

UriA == <<"a">>
UriB == <<"b">>
UriQ == <<"a", "'", "a">>
UriQQ == <<"a", "'", "'", "a">>
UriSp == <<"a", " ">>

\* dataset ids of score trees (update_assessment does not validate them)
DatasetUris == {UriA, UriB, UriQ}


\* identifiers a scores request may list
RequestUris == {UriA, UriB, UriQ, UriQQ, UriSp}

\* Longest datasets list of a scores request.
MaxUris == 2

\* A u64 is kept as <<k, r>>, the value k * 2^31 + r with 0 <= r < 2^31.
U64(n) == <<0, n>>

DimensionScore(id, score, max_score) ==
    [id |-> id, score |-> score, max_score |-> max_score]

\* dataset-level dimension lists of the posted trees
DimensionLists ==
    << <<>>,
       <<DimensionScore("x", U64(1), U64(2))>>,
       <<DimensionScore("x", U64(0), U64(2)), DimensionScore("y", U64(3), U64(4))>>,
       <<DimensionScore("y", U64(1), U64(4))>> >>

\* models::ScorePostRequest as update_assessment reads it. (The fields of a
\* record are written in the order of their first use in this module.)
ScorePostRequest(uri, k) ==
    [turtle_assessment |-> <<"ttl", uri, k>>,
     jsonld_assessment |-> <<"jsonld", uri, k>>,
     scores |-> [dataset |-> [dimensions |-> DimensionLists[k], id |-> uri]]]

\* a body serde_json cannot read as a ScorePostRequest
Malformed == [malformed |-> TRUE]

\* for dimension in &update.scores.dataset.dimensions
dimensions_of(update) == update.scores.dataset.dimensions

\* the request bodies that post a tree for one of the dataset ids `uris`
Bodies(uris) ==
    {ScorePostRequest(u, k) : u \in uris, k \in DOMAIN DimensionLists} \cup {Malformed}

\* Storage errors injected into update_assessment in one run.
MaxStorageFailures == 1

----------------------------------------------------------------------------
(* Helpers of the handlers *)

\* validate_api_key letting a request without the header through
validate_api_key_missing_ok(header) ==
    IF header = "<missing>" THEN "Ok"
    ELSE IF header = "<opaque>" THEN "Unauthorized"
    ELSE IF header = API_KEY THEN "Ok"
    ELSE "Unauthorized"

validate_api_key(header) ==
    IF header = "<missing>" THEN "Unauthorized"
    ELSE IF header = "<opaque>" THEN "Unauthorized"
    ELSE IF header = API_KEY THEN "Ok"
    ELSE "Unauthorized"

\* Uuid::parse_str followed by to_string: the canonical lower-case form, or
\* the InvalidID error
parse_uuid(id) ==
    CASE id = "02f0" -> "02f0"
      [] id = "02F0" -> "02f0"
      [] id = "8409" -> "8409"
      [] OTHER -> "InvalidID"

\* characters http::Uri accepts (of the alphabet used here); a space is not one
UriChars == {"a", "b", "'"}

\* uri.parse::<Uri>() succeeds
parse_uri_ok(uri) == Len(uri) > 0 /\ \A i \in DOMAIN uri : uri[i] \in UriChars

\* `as i32` of a u64: the low 32 bits, two's complement
as_i32(v) ==
    IF v[1] % 2 = 0 THEN v[2] ELSE (v[2] - 1073741824) - 1073741824

\* serde_json::to_string of the score tree, and serde_json::from_str of it
to_json(scores) == <<"json", scores>>
from_json(json) == json[2]

----------------------------------------------------------------------------
(* PgConn: one SQL statement each *)

store_dataset(tbl, assessment) ==
    {r \in tbl : r.id # assessment.id} \cup {assessment}

store_dimension(tbl, dimension) ==
    {r \in tbl : ~(r.dataset_uri = dimension.dataset_uri /\ r.id = dimension.id)}
        \cup {dimension}

\* the rows of table dimensions for one dataset
rows_of(tbl, uri) == {r \in tbl : r.dataset_uri = uri}

\* drop_dataset_dimensions deleting nothing
drop_dataset_dimensions_none(tbl, dataset_uri) == tbl

\* drop_dataset_dimensions deleting without the filter on dataset_uri
drop_dataset_dimensions_all(tbl, dataset_uri) == {}

drop_dataset_dimensions(tbl, dataset_uri) ==
    {r \in tbl : r.dataset_uri # dataset_uri}

turtle_assessment(tbl, uuid) ==
    LET rows == {r \in tbl : r.id = uuid}
    IN  IF rows = {} THEN None ELSE Some((CHOOSE r \in rows : TRUE).turtle_assessment)

jsonld_assessment(tbl, uuid) ==
    LET rows == {r \in tbl : r.id = uuid}
    IN  IF rows = {} THEN None ELSE Some((CHOOSE r \in rows : TRUE).jsonld_assessment)

\* The rows json_scores selects are keyed by dataset uri in a HashMap; when
\* several rows carry one uri the row collected last wins, and the order of
\* the rows is the database's. The result is one of these maps.
json_scores(tbl, dataset_uris) ==
    LET uris == {dataset_uris[i] : i \in DOMAIN dataset_uris}
        rows == {r \in tbl : r.dataset_uri \in uris}
        keys == {r.dataset_uri : r \in rows}
        DatasetScores == {from_json(r.json_score) : r \in rows}
    IN  {m \in [keys -> DatasetScores] :
            \A k \in keys : \E r \in rows :
                r.dataset_uri = k /\ m[k] = from_json(r.json_score)}

\* format!("'{uri}'") of each uri, joined by ","
RECURSIVE in_list(_)
in_list(dataset_uris) ==
    IF dataset_uris = <<>> THEN <<>>
    ELSE IF Len(dataset_uris) = 1 THEN <<"'">> \o dataset_uris[1] \o <<"'">>
    ELSE <<"'">> \o dataset_uris[1] \o <<"'", ",">> \o in_list(Tail(dataset_uris))

\* The SQL lexer on a string literal whose opening quote is before position j:
\* two quotes in a row are one quote character of the literal, a single quote
\* ends it, the end of the text before that is a syntax error.
RECURSIVE read_literal(_, _, _)
read_literal(q, j, acc) ==
    IF j > Len(q) THEN [ok |-> FALSE, lit |-> acc, next |-> j]
    ELSE IF q[j] = "'"
         THEN IF j + 1 <= Len(q) /\ q[j + 1] = "'"
              THEN read_literal(q, j + 2, Append(acc, "'"))
              ELSE [ok |-> TRUE, lit |-> acc, next |-> j + 1]
         ELSE read_literal(q, j + 1, Append(acc, q[j]))

\* The SQL parser on the text between "in (" and ")": string literals
\* separated by commas, at least one. Anything else is a syntax error.
RECURSIVE read_list(_, _, _)
read_list(q, i, lits) ==
    IF i > Len(q) \/ q[i] # "'" THEN [ok |-> FALSE, values |-> {}]
    ELSE LET l == read_literal(q, i + 1, <<>>)
         IN  IF ~l.ok THEN [ok |-> FALSE, values |-> {}]
             ELSE IF l.next > Len(q) THEN [ok |-> TRUE, values |-> lits \cup {l.lit}]
             ELSE IF q[l.next] = "," THEN read_list(q, l.next + 1, lits \cup {l.lit})
             ELSE [ok |-> FALSE, values |-> {}]

RECURSIVE gcd(_, _)
gcd(a, b) == IF b = 0 THEN a ELSE gcd(b, a % b)

\* AVG(column)::float8 of a non-empty group: the quotient sum / count, kept
\* exactly as a fraction in lowest terms.
RECURSIVE sum_of(_, _)
sum_of(f, S) ==
    IF S = {} THEN 0
    ELSE LET r == CHOOSE r \in S : TRUE IN f[r] + sum_of(f, S \ {r})

avg(f, S) ==
    LET total == sum_of(f, S)
        n == Cardinality(S)
        g == gcd(IF total < 0 THEN -total ELSE total, n)
    IN  [num |-> total \div g, den |-> n \div g]

\* SELECT id, AVG(score), AVG(max_score) FROM dimensions
\* WHERE dataset_uri in (<in_list>) GROUP BY id
dimension_aggregates(tbl, dataset_uris) ==
    LET parsed == read_list(in_list(dataset_uris), 1, {})
        rows == {r \in tbl : r.dataset_uri \in parsed.values}
        group(x) == {r \in rows : r.id = x}
    IN  IF ~parsed.ok THEN [ok |-> FALSE, value |-> {}]
        ELSE [ok |-> TRUE,
              value |-> {[id |-> x,
                          score |-> avg([r \in group(x) |-> r.score], group(x)),
                          max_score |-> avg([r \in group(x) |-> r.max_score], group(x))]
                         : x \in {r.id : r \in rows}}]

----------------------------------------------------------------------------
(* Rows update_assessment writes *)

DatasetAssessment(uuid, update) ==
    [id |-> uuid,
     turtle_assessment |-> update.turtle_assessment,
     jsonld_assessment |-> update.jsonld_assessment,
     dataset_uri |-> update.scores.dataset.id,
     json_score |-> to_json(update.scores)]

Dimension(dataset_uri, dimension) ==
    [id |-> dimension.id,
     score |-> as_i32(dimension.score),
     max_score |-> as_i32(dimension.max_score),
     dataset_uri |-> dataset_uri]

\* the loop over update.scores.dataset.dimensions, its first n rounds
RECURSIVE store_dimensions(_, _, _, _)
store_dimensions(tbl, dataset_uri, dims, n) ==
    IF n = 0 THEN tbl
    ELSE store_dimension(store_dimensions(tbl, dataset_uri, dims, n - 1),
                         Dimension(dataset_uri, dims[n]))

----------------------------------------------------------------------------
(* The handlers, one request at a time *)

Init ==
    /\ dataset_assessments = {}
    /\ dimensions = {}
    /\ request = [op |-> "none"]
    /\ response = [kind |-> "none"]
    /\ latest = [u \in DatasetUris |-> None]
    /\ latestById = [i \in Uuids |-> None]
    /\ storageFailures = 0
    /\ workers = [w \in Workers |-> [pc |-> "idle"]]
    /\ reader = [pc |-> "idle"]
    /\ allowed = [u \in DatasetUris |-> {{}}]

\* The storage statements of update_assessment completed when the handler
\* stops. fails = 0: none fails. fails = 1: pool.get fails. fails = 2:
\* drop_dataset_dimensions fails. fails = 3: store_dataset fails.
\* fails = 3 + i: the i-th store_dimension fails. A statement that fails
\* changes nothing; the statements before it stay done (no transaction).
statements_done(fails, n) ==
    IF fails = 0 THEN n + 2 ELSE IF fails = 1 THEN 0 ELSE fails - 2

dimensions_after(tbl, update, done) ==
    LET uri == update.scores.dataset.id
        dims == update.scores.dataset.dimensions
    IN  IF done = 0 THEN tbl
        ELSE store_dimensions(drop_dataset_dimensions(tbl, uri), uri, dims,
                              IF done > 2 THEN done - 2 ELSE 0)

dataset_assessments_after(tbl, uuid, update, done) ==
    IF done >= 2 THEN store_dataset(tbl, DatasetAssessment(uuid, update)) ELSE tbl

\* what update_assessment answers before it reaches the storage, or "no"
update_rejected(header, id, body) ==
    IF validate_api_key(header) # "Ok" THEN "Unauthorized"
    ELSE IF parse_uuid(id) = "InvalidID" THEN "InvalidID"
    ELSE IF body = Malformed THEN "BadRequest"
    ELSE "no"

\* the places update_assessment can fail at for a body
fail_points(body) ==
    IF body = Malformed THEN {0} ELSE 0..(Len(body.scores.dataset.dimensions) + 3)

\* POST /api/assessments/{id}
update_assessment(header, id, body, fails) ==
    LET uuid == parse_uuid(id)
        n == Len(body.scores.dataset.dimensions)
        done == statements_done(fails, n)
    IN  /\ request' = [header |-> header, op |-> "update_assessment",
                        target |-> IF update_rejected(header, id, body) # "no" THEN None
                                   ELSE Some(<<uuid, body.scores.dataset.id>>)]
        /\ UNCHANGED conc
        /\ IF update_rejected(header, id, body) # "no"
           THEN /\ fails = 0
                /\ response' = [kind |-> update_rejected(header, id, body)]
                /\ UNCHANGED <<dataset_assessments, dimensions, latest, latestById,
                               storageFailures>>
           ELSE /\ dimensions' = dimensions_after(dimensions, body, done)
                /\ dataset_assessments' =
                       dataset_assessments_after(dataset_assessments, uuid, body, done)
                /\ IF fails = 0
                   THEN /\ response' = [kind |-> "Accepted"]
                        /\ latest' = [latest EXCEPT ![body.scores.dataset.id] = Some(body)]
                        /\ latestById' = [latestById EXCEPT ![uuid] = Some(body)]
                        /\ UNCHANGED storageFailures
                   ELSE /\ storageFailures < MaxStorageFailures
                        /\ response' = [kind |-> "DatabaseError"]
                        /\ storageFailures' = storageFailures + 1
                        /\ UNCHANGED <<latest, latestById>>

\* GET /api/assessments/{id}
assessment_graph(accept_json_ld, id) ==
    LET uuid == parse_uuid(id)
        graph == IF accept_json_ld THEN jsonld_assessment(dataset_assessments, uuid)
                 ELSE turtle_assessment(dataset_assessments, uuid)
    IN  /\ request' = [op |-> "assessment_graph"]
        /\ UNCHANGED conc
        /\ response' =
               IF uuid = "InvalidID" THEN [kind |-> "InvalidID"]
               ELSE IF graph = None THEN [kind |-> "NotFound"]
               ELSE [kind |-> "Ok",
                     body |-> graph[1],
                     content_type |-> IF accept_json_ld THEN "application/ld+json"
                                      ELSE "text/turtle"]
        /\ UNCHANGED <<dataset_assessments, dimensions, latest, latestById,
                       storageFailures>>

\* POST /api/scores
scores(datasets) ==
    LET aggregates == dimension_aggregates(dimensions, datasets)
    IN  /\ request' = [op |-> "scores", datasets |-> datasets]
        /\ UNCHANGED conc
        /\ IF \E i \in DOMAIN datasets : ~parse_uri_ok(datasets[i])
           THEN response' = [kind |-> "InvalidUri"]
           ELSE \E m \in json_scores(dataset_assessments, datasets) :
                    response' =
                        IF ~aggregates.ok THEN [kind |-> "DatabaseError"]
                        ELSE [scores |-> m, kind |-> "Ok",
                              aggregations |-> aggregates.value]
        /\ UNCHANGED <<dataset_assessments, dimensions, latest, latestById,
                       storageFailures>>

\* the datasets lists of up to MaxUris identifiers among `uris`
requests_over(uris) == UNION {[1..n -> uris] : n \in 0..MaxUris}

\* the datasets lists of the scores requests
DatasetsRequests == requests_over(RequestUris)

----------------------------------------------------------------------------
(* Spec: requests one at a time, the storage answering every statement *)

UpdateRequest ==
    \E header \in ApiKeyHeaders, id \in PathIds, body \in Bodies({UriA, UriB}) :
        update_assessment(header, id, body, 0)

AssessmentGraphRequest ==
    \E accept_json_ld \in BOOLEAN, id \in PathIds :
        assessment_graph(accept_json_ld, id)

\* scores requests for the datasets posted under Spec, and an invalid uri
ScoresRequest ==
    \E datasets \in requests_over({UriA, UriB, UriSp}) : scores(datasets)

Next == UpdateRequest \/ AssessmentGraphRequest \/ ScoresRequest

Spec == Init /\ [][Next]_vars

----------------------------------------------------------------------------
(* SpecStorageErrors: requests one at a time for one dataset, and up to     *)
(* MaxStorageFailures updates in which a storage statement fails            *)

UpdateRequestA ==
    \E header \in ApiKeyHeaders, id \in PathIds, body \in Bodies({UriA}) :
        update_assessment(header, id, body, 0)

UpdateRequestStorageError ==
    \E id \in PathIds, body \in Bodies({UriA}) :
        \E fails \in fail_points(body) \ {0} :
            update_assessment(API_KEY, id, body, fails)

NextStorageErrors ==
    \/ UpdateRequestA
    \/ UpdateRequestStorageError
    \/ AssessmentGraphRequest
    \/ ScoresRequest

SpecStorageErrors == Init /\ [][NextStorageErrors]_vars

----------------------------------------------------------------------------
(* SpecAggregates: the scores handler on the stores that one accepted       *)
(* update per dataset leaves                                                *)

UuidOf(uri) == IF uri = UriA THEN "02f0" ELSE IF uri = UriB THEN "8409" ELSE "1337"

\* posted[u] = 0: nothing posted for u; posted[u] = k: DimensionLists[k] posted
Postings == [DatasetUris -> 0..Len(DimensionLists)]

posted_dimensions(posted) ==
    UNION {store_dimensions({}, u, DimensionLists[posted[u]], Len(DimensionLists[posted[u]]))
           : u \in {v \in DatasetUris : posted[v] > 0}}

posted_assessments(posted) ==
    {DatasetAssessment(UuidOf(u), ScorePostRequest(u, posted[u]))
     : u \in {v \in DatasetUris : posted[v] > 0}}

InitAggregates ==
    \E posted \in Postings :
        /\ dataset_assessments = posted_assessments(posted)
        /\ dimensions = posted_dimensions(posted)
        /\ request = [op |-> "none"]
        /\ response = [kind |-> "none"]
        /\ latest = [u \in DatasetUris |->
                        IF posted[u] = 0 THEN None ELSE Some(ScorePostRequest(u, posted[u]))]
        /\ latestById = [i \in Uuids |->
                            IF \E u \in DatasetUris : UuidOf(u) = i /\ posted[u] > 0
                            THEN LET u == CHOOSE u \in DatasetUris : UuidOf(u) = i
                                 IN  Some(ScorePostRequest(u, posted[u]))
                            ELSE None]
        /\ storageFailures = 0
        /\ workers = [w \in Workers |-> [pc |-> "idle"]]
        /\ reader = [pc |-> "idle"]
        /\ allowed = [u \in DatasetUris |-> {rows_of(posted_dimensions(posted), u)}]

ScoresRequestAny ==
    \E datasets \in DatasetsRequests : scores(datasets)

NextAggregates == ScoresRequestAny

SpecAggregates == InitAggregates /\ [][NextAggregates]_vars

----------------------------------------------------------------------------
(* SpecConcurrent: update_assessment requests for one dataset on the         *)
(* threads of web::block, each on its own pooled connection, one SQL         *)
(* statement (autocommit) per step, and a scores request reading meanwhile;  *)
(* the storage answers every statement                                       *)

\* the rows an update's dimension loop leaves when nothing else writes
complete_rows(update) ==
    store_dimensions({}, update.scores.dataset.id, dimensions_of(update),
                     Len(dimensions_of(update)))

in_flight(uri) ==
    {w \in Workers : workers[w].pc # "idle" /\ workers[w].update.scores.dataset.id = uri}

\* the bodies of the concurrent updates: the trees for dataset a with no
\* dimension, or with dimension x first
ConcurrentBodies ==
    {ScorePostRequest(UriA, k) :
        k \in {j \in DOMAIN DimensionLists :
                  DimensionLists[j] = <<>> \/ DimensionLists[j][1].id = "x"}}

\* update_assessment up to pool.get: the request is accepted and holds a connection
ConcUpdateBegin(w) ==
    /\ workers[w].pc = "idle"
    /\ \E id \in {"02f0"}, body \in ConcurrentBodies :
           LET uri == body.scores.dataset.id
           IN  /\ update_rejected(API_KEY, id, body) = "no"
               /\ workers' = [workers EXCEPT ![w] =
                                 [update |-> body, uuid |-> parse_uuid(id), next |-> 1,
                                  pc |-> "drop"]]
               /\ allowed' = [allowed EXCEPT ![uri] =
                                 IF in_flight(uri) = {}
                                 THEN {rows_of(dimensions, uri), complete_rows(body)}
                                 ELSE @ \cup {complete_rows(body)}]
               /\ request' = [header |-> API_KEY, op |-> "update_assessment",
                               target |-> Some(<<parse_uuid(id), uri>>)]
    /\ UNCHANGED <<dataset_assessments, dimensions, response, latest, latestById,
                   storageFailures, reader>>

\* the handler returns Ok(()): Accepted. (latest and latestById are the
\* history of the one-at-a-time specifications and are not kept here.)
finished(w) ==
    /\ response' = [kind |-> "Accepted"]
    /\ UNCHANGED <<latest, latestById>>

ConcDropDatasetDimensions(w) ==
    /\ workers[w].pc = "drop"
    /\ dimensions' = drop_dataset_dimensions(dimensions, workers[w].update.scores.dataset.id)
    /\ workers' = [workers EXCEPT ![w].pc = "store"]
    /\ UNCHANGED <<dataset_assessments, request, response, latest, latestById,
                   storageFailures, reader, allowed>>

ConcStoreDataset(w) ==
    /\ workers[w].pc = "store"
    /\ dataset_assessments' =
           store_dataset(dataset_assessments,
                         DatasetAssessment(workers[w].uuid, workers[w].update))
    /\ IF dimensions_of(workers[w].update) = <<>>
       THEN /\ workers' = [workers EXCEPT ![w] = [pc |-> "idle"]]
            /\ finished(w)
       ELSE /\ workers' = [workers EXCEPT ![w].pc = "dims"]
            /\ UNCHANGED <<response, latest, latestById>>
    /\ UNCHANGED <<dimensions, request, storageFailures, reader, allowed>>

ConcStoreDimension(w) ==
    /\ workers[w].pc = "dims"
    /\ LET update == workers[w].update
           k == workers[w].next
       IN  /\ dimensions' =
                  store_dimension(dimensions,
                                  Dimension(update.scores.dataset.id, dimensions_of(update)[k]))
           /\ IF k = Len(dimensions_of(update))
              THEN /\ workers' = [workers EXCEPT ![w] = [pc |-> "idle"]]
                   /\ finished(w)
              ELSE /\ workers' = [workers EXCEPT ![w].next = k + 1]
                   /\ UNCHANGED <<response, latest, latestById>>
    /\ UNCHANGED <<dataset_assessments, request, storageFailures, reader, allowed>>

\* scores for dataset a, its first query: json_scores
ConcScoresJson ==
    /\ reader.pc = "idle"
    /\ \E m \in json_scores(dataset_assessments, <<UriA>>) :
           reader' = [scores |-> m, pc |-> "aggregates", datasets |-> <<UriA>>]
    /\ request' = [op |-> "scores", datasets |-> <<UriA>>]
    /\ UNCHANGED <<dataset_assessments, dimensions, response, latest, latestById,
                   storageFailures, workers, allowed>>

\* its second query: dimension_aggregates, and the response
ConcScoresAggregates ==
    /\ reader.pc = "aggregates"
    /\ LET aggregates == dimension_aggregates(dimensions, reader.datasets)
       IN  response' = IF ~aggregates.ok THEN [kind |-> "DatabaseError"]
                       ELSE [scores |-> reader.scores, kind |-> "Ok",
                             aggregations |-> aggregates.value]
    /\ reader' = [pc |-> "idle"]
    /\ UNCHANGED <<dataset_assessments, dimensions, request, latest, latestById,
                   storageFailures, workers, allowed>>

NextConcurrent ==
    \/ \E w \in Workers : ConcUpdateBegin(w)
    \/ \E w \in Workers : ConcDropDatasetDimensions(w)
    \/ \E w \in Workers : ConcStoreDataset(w)
    \/ \E w \in Workers : ConcStoreDimension(w)
    \/ ConcScoresJson
    \/ ConcScoresAggregates

SpecConcurrent == Init /\ [][NextConcurrent]_vars

----------------------------------------------------------------------------
(* SpecFrame: update_assessment requests one at a time for two datasets     *)
(* under two assessment ids, and up to MaxStorageFailures of them in which  *)
(* a storage statement fails                                                *)

\* the bodies of SpecFrame: for each dataset the tree with no dimension and
\* the tree with two, and a malformed body
FrameBodies ==
    {b \in Bodies({UriA, UriB}) : b = Malformed \/ Len(dimensions_of(b)) # 1}

UpdateRequestAB ==
    \E header \in ApiKeyHeaders, id \in PathIds, body \in FrameBodies :
        update_assessment(header, id, body, 0)

UpdateRequestABStorageError ==
    \E id \in PathIds, body \in FrameBodies :
        \E fails \in fail_points(body) \ {0} :
            update_assessment(API_KEY, id, body, fails)

NextFrame == UpdateRequestAB \/ UpdateRequestABStorageError

SpecFrame == Init /\ [][NextFrame]_vars

----------------------------------------------------------------------------
(* SpecTrees: accepted updates whose bodies carry whole score trees          *)
(* (metrics, dimensions, nodes, with their totals as posted), and scores     *)
(* requests reading them back                                                *)

MetricScore(metric, score, is_scored, max_score) ==
    [score |-> score, max_score |-> max_score, metric |-> metric, is_scored |-> is_scored]

DimensionScoreOf(id, metrics, score, max_score) ==
    [id |-> id, score |-> score, max_score |-> max_score, metrics |-> metrics]

\* a dataset or distribution node
Score(id, dimensions_, score, max_score) ==
    [dimensions |-> dimensions_, id |-> id, score |-> score, max_score |-> max_score]

\* 2^32 - 1 and 2^32 + 1 as u64
U64Wide1 == <<1, 2147483647>>
U64Wide2 == <<2, 1>>

\* The nodes posted for a dataset: the totals are what the body says, as serde
\* reads them. 1: totals that are the sums of the children. 2: totals that are
\* not. 3, 4: one metric with values above the i32 range, totals the sums.
ScoreNodes(uri) ==
    << Score(uri,
             <<DimensionScoreOf("x", <<MetricScore("m1", U64(1), TRUE, U64(2)),
                                       MetricScore("m2", U64(0), FALSE, U64(2))>>,
                                U64(1), U64(4))>>,
             U64(1), U64(4)),
       Score(uri,
             <<DimensionScoreOf("x", <<MetricScore("m1", U64(1), TRUE, U64(2))>>,
                                U64(3), U64(4))>>,
             U64(5), U64(6)),
       Score(uri,
             <<DimensionScoreOf("x", <<MetricScore("m1", U64Wide1, TRUE, U64Wide1)>>,
                                U64Wide1, U64Wide1)>>,
             U64Wide1, U64Wide1),
       Score(uri,
             <<DimensionScoreOf("x", <<MetricScore("m1", U64(1), TRUE, U64Wide2)>>,
                                U64(1), U64Wide2)>>,
             U64(1), U64Wide2) >>

\* models::ScorePostRequest with the whole tree; the dataset node is also
\* posted as the one distribution node
TreePostRequest(uri, k) ==
    [turtle_assessment |-> <<"ttl", uri, k>>,
     jsonld_assessment |-> <<"jsonld", uri, k>>,
     scores |-> [dataset |-> ScoreNodes(uri)[k], distributions |-> <<ScoreNodes(uri)[k]>>]]

TreeBodies == {TreePostRequest(u, k) : u \in {UriA, UriB}, k \in 1..4}

UpdateRequestTree ==
    \E id \in {"02f0", "8409"}, body \in TreeBodies :
        update_assessment(API_KEY, id, body, 0)

ScoresRequestTree ==
    \E datasets \in requests_over({UriA, UriB}) : scores(datasets)

NextTrees == UpdateRequestTree \/ ScoresRequestTree

SpecTrees == Init /\ [][NextTrees]_vars

----------------------------------------------------------------------------
(* Properties *)

dimension_ids(dims) == {dims[i].id : i \in DOMAIN dims}

\* C1: when every update that reached the storage succeeded, the dimension
\* rows of a dataset uri are those of the dataset-level dimensions of the most
\* recent successful update for that uri: the same dimension ids, each row with
\* the values written for its dimension, and no row when there was no update.
C1_NoStaleRows ==
    \A u \in DatasetUris :
        IF latest[u] = None THEN rows_of(dimensions, u) = {}
        ELSE LET dims == dimensions_of(latest[u][1])
             IN  /\ {r.id : r \in rows_of(dimensions, u)} = dimension_ids(dims)
                 /\ \A r \in rows_of(dimensions, u) : \E i \in DOMAIN dims :
                        /\ r.id = dims[i].id
                        /\ r.score = as_i32(dims[i].score)
                        /\ r.max_score = as_i32(dims[i].max_score)

\* C1's case: the latest accepted update for dataset a has no dimension y, an
\* earlier one (still on record under another assessment id) had it.
C1_Witness ==
    /\ response.kind = "Accepted"
    /\ latest[UriA] # None
    /\ dimension_ids(dimensions_of(latest[UriA][1])) = {"x"}
    /\ \E a \in dataset_assessments :
           /\ a.dataset_uri = UriA
           /\ "y" \in dimension_ids(from_json(a.json_score).dataset.dimensions)

\* C2: an update_assessment in which a storage step fails leaves the
\* dataset's dimension rows and the assessment record of its id as they were.
C2_AllOrNothing ==
    [][\A id \in PathIds, body \in Bodies({UriA}) :
         \A fails \in fail_points(body) \ {0} :
            (/\ update_rejected(API_KEY, id, body) = "no"
             /\ update_assessment(API_KEY, id, body, fails))
            => /\ rows_of(dimensions', body.scores.dataset.id)
                     = rows_of(dimensions, body.scores.dataset.id)
               /\ {a \in dataset_assessments' : a.id = parse_uuid(id)}
                     = {a \in dataset_assessments : a.id = parse_uuid(id)}]_vars

\* C6: an update_assessment whose X-API-KEY header is missing or is not the
\* configured key answers Unauthorized and changes neither table, whatever
\* its id and body.
C6_UnauthorizedChangesNothing ==
    [][(request'.op = "update_assessment" /\ request'.header # API_KEY)
       => /\ response'.kind = "Unauthorized"
          /\ dataset_assessments' = dataset_assessments
          /\ dimensions' = dimensions]_vars

\* C6's case: a request was answered Unauthorized while both tables held rows.
C6_Witness ==
    /\ request.op = "update_assessment"
    /\ request.header = "bar"
    /\ response.kind = "Unauthorized"
    /\ dimensions # {}
    /\ dataset_assessments # {}

\* C7: assessment_graph for an id returns the turtle text (the JSON-LD text
\* when the Accept header asks for it) of the most recent successful update
\* for that id.
C7_GraphRoundTrip ==
    [][\A accept_json_ld \in BOOLEAN, id \in PathIds :
         (/\ parse_uuid(id) \in Uuids
          /\ latestById[parse_uuid(id)] # None
          /\ assessment_graph(accept_json_ld, id))
         => LET update == latestById[parse_uuid(id)][1]
            IN  /\ response'.kind = "Ok"
                /\ response'.body = IF accept_json_ld THEN update.jsonld_assessment
                                    ELSE update.turtle_assessment]_vars

\* a score (a fraction) is the u64 value v
is_u64(score, v) == v[1] = 0 /\ score.den = 1 /\ score.num = v[2]

\* C8: when every update that reached the storage succeeded, a scores request
\* for one dataset uri returns under that uri the tree of the most recent
\* successful update for it, and one aggregation per dataset-level dimension of
\* that tree, with the dimension's score and max_score.
C8_ScoresOfLatestUpdate ==
    [][\A u \in DatasetUris :
         (latest[u] # None /\ scores(<<u>>))
         => /\ response'.kind = "Ok"
            /\ DOMAIN response'.scores = {u}
            /\ response'.scores[u] = latest[u][1].scores
            /\ LET dims == dimensions_of(latest[u][1])
               IN  /\ {e.id : e \in response'.aggregations} = dimension_ids(dims)
                   /\ \A i \in DOMAIN dims :
                          \E e \in response'.aggregations :
                              /\ e.id = dims[i].id
                              /\ is_u64(e.score, dims[i].score)
                              /\ is_u64(e.max_score, dims[i].max_score)]_vars

\* C9: assessment_graph for a uuid under which no update has succeeded
\* answers NotFound and changes neither table.
C9_NotFound ==
    [][\A accept_json_ld \in BOOLEAN, id \in PathIds :
         (/\ parse_uuid(id) \in Uuids
          /\ latestById[parse_uuid(id)] = None
          /\ assessment_graph(accept_json_ld, id))
         => /\ response'.kind = "NotFound"
            /\ dataset_assessments' = dataset_assessments
            /\ dimensions' = dimensions]_vars

\* the datasets lists whose every uri passes the scores handler's validation
ValidDatasetsRequests ==
    {d \in DatasetsRequests : \A i \in DOMAIN d : parse_uri_ok(d[i])}

uri_set(datasets) == {datasets[i] : i \in DOMAIN datasets}

\* the fraction f is the mean of column over the non-empty group
is_mean(f, column, group) ==
    f.den > 0 /\ f.num * Cardinality(group) = f.den * sum_of(column, group)

\* C3: for a non-empty list of valid dataset identifiers, the scores handler
\* returns exactly one aggregate per dimension id that has a row whose
\* dataset_uri is one of the identifiers, with the means of score and max_score
\* over exactly those rows.
C3_AggregatesAreMeans ==
    [][\A datasets \in ValidDatasetsRequests :
         (datasets # <<>> /\ scores(datasets))
         => /\ response'.kind = "Ok"
            /\ LET rows == {r \in dimensions : r.dataset_uri \in uri_set(datasets)}
                   aggs == response'.aggregations
               IN  /\ {e.id : e \in aggs} = {r.id : r \in rows}
                   /\ \A e1, e2 \in aggs : e1.id = e2.id => e1 = e2
                   /\ \A e \in aggs :
                          LET group == {r \in rows : r.id = e.id}
                          IN  /\ is_mean(e.score, [r \in group |-> r.score], group)
                              /\ is_mean(e.max_score, [r \in group |-> r.max_score],
                                         group)]_vars

\* C4: a scores request with an empty datasets list returns an empty mapping
\* and no aggregates, and does not fail.
C4_EmptyRequest ==
    [][scores(<<>>)
       => /\ response'.kind = "Ok"
          /\ DOMAIN response'.scores = {}
          /\ response'.aggregations = {}]_vars

\* the dimension tables of the initial states of SpecAggregates
DimensionTables == {posted_dimensions(posted) : posted \in Postings}

\* C5: the aggregates the scores handler returns for valid identifiers are
\* those any store would give that agrees with this one on the rows whose
\* dataset_uri is one of the identifiers, and the handler leaves the table as
\* it is.
C5_IdentifiersAreData ==
    [][\A datasets \in ValidDatasetsRequests :
         scores(datasets)
         => /\ dimensions' = dimensions
            /\ \A other \in DimensionTables :
                   ({r \in other : r.dataset_uri \in uri_set(datasets)}
                       = {r \in dimensions : r.dataset_uri \in uri_set(datasets)})
                   => LET there == dimension_aggregates(other, datasets)
                      IN  IF there.ok
                          THEN /\ response'.kind = "Ok"
                               /\ response'.aggregations = there.value
                          ELSE response'.kind = "DatabaseError"]_vars

\* C13: an update_assessment with assessment id I and dataset uri U, accepted
\* or ended by a storage error, leaves every dimension row of another dataset
\* uri and every assessment record of another id as they were; one rejected
\* before the storage changes neither table.
C13_Frame ==
    [][request'.op = "update_assessment"
       => IF request'.target = None
          THEN dataset_assessments' = dataset_assessments /\ dimensions' = dimensions
          ELSE LET I == request'.target[1][1]
                   U == request'.target[1][2]
               IN  /\ {r \in dimensions' : r.dataset_uri # U}
                          = {r \in dimensions : r.dataset_uri # U}
                   /\ {a \in dataset_assessments' : a.id # I}
                          = {a \in dataset_assessments : a.id # I}]_vars

\* C13's case: an update for dataset a under id 02f0 ended by a storage error
\* after it had written, while dataset b held rows and id 8409 a record.
C13_Witness ==
    /\ request.op = "update_assessment"
    /\ request.target = Some(<<"02f0", UriA>>)
    /\ response.kind = "DatabaseError"
    /\ rows_of(dimensions, UriA) # {}
    /\ rows_of(dimensions, UriB) # {}
    /\ \E a \in dataset_assessments : a.id = "8409"

\* C10: at every moment the dimension rows of a dataset are the complete set
\* of one of the updates running or run since the dataset was last at rest,
\* or the set held before them.
C10_RowsOfOneUpdate ==
    \A u \in DatasetUris : rows_of(dimensions, u) \in allowed[u]

\* C14: when every update that reached the storage succeeded, every dimension
\* row has an assessment record with its dataset_uri.
C14_RowsHaveRecord ==
    \A r \in dimensions : \E a \in dataset_assessments : a.dataset_uri = r.dataset_uri

\* the sum of two u64 kept as pairs <<k, r>> (value k * 2^31 + r)
plus_u64(a, b) ==
    LET carry == b[2] > 0 /\ a[2] >= (2147483647 - b[2]) + 1
    IN  <<a[1] + b[1] + (IF carry THEN 1 ELSE 0),
          IF carry THEN a[2] - ((2147483647 - b[2]) + 1) ELSE a[2] + b[2]>>

RECURSIVE sum_u64(_)
sum_u64(values) ==
    IF values = <<>> THEN U64(0) ELSE plus_u64(Head(values), sum_u64(Tail(values)))

\* score and max_score of `parent` are the sums over `children`
totals_are_sums(parent, children) ==
    /\ parent.score = sum_u64([i \in DOMAIN children |-> children[i].score])
    /\ parent.max_score = sum_u64([i \in DOMAIN children |-> children[i].max_score])

\* the sum invariant on a dataset or distribution node
node_sums_hold(node) ==
    /\ totals_are_sums(node, node.dimensions)
    /\ \A i \in DOMAIN node.dimensions :
           totals_are_sums(node.dimensions[i], node.dimensions[i].metrics)

tree_sums_hold(tree) ==
    /\ node_sums_hold(tree.dataset)
    /\ \A i \in DOMAIN tree.distributions : node_sums_hold(tree.distributions[i])

\* C11: in every score tree persisted as json_score, and in every tree a
\* scores request returns, each dimension's score and max_score are the sums
\* over its metrics and each node's the sums over its dimensions.
C11_SumInvariant ==
    /\ \A a \in dataset_assessments : tree_sums_hold(from_json(a.json_score))
    /\ (request.op = "scores" /\ response.kind = "Ok")
           => \A u \in DOMAIN response.scores : tree_sums_hold(response.scores[u])

\* C12: for every dataset-level dimension of the most recent accepted update of
\* a dataset, the persisted row carries the posted score and max_score: the
\* column values are not negative and equal the posted u64 values.
C12_ScoresUnchanged ==
    \A u \in DatasetUris :
        latest[u] # None
        => \A i \in DOMAIN dimensions_of(latest[u][1]) :
               LET posted == dimensions_of(latest[u][1])[i]
               IN  \E r \in rows_of(dimensions, u) :
                       /\ r.id = posted.id
                       /\ r.score >= 0 /\ posted.score = U64(r.score)
                       /\ r.max_score >= 0 /\ posted.max_score = U64(r.max_score)

====
